---------------------------- MODULE Spec2Model ----------------------------
(***************************************************************************)
(* Two client-side zustand stores of the shopping mall front end:          *)
(*   - the Identity Store  (src/src/stores/authStore.ts, useAuthStore)     *)
(*   - the Admin Store     (src/unnamed/part_000,        useAdminStore)    *)
(*                                                                         *)
(* JavaScript runs one task at a time: every action below is one run of    *)
(* the event loop, i.e. the code of a handler from its call (or from the   *)
(* resumption of an await) up to its next await or its return.             *)
(*                                                                         *)
(* Strings of the program that the code inspects (email, password, id)     *)
(* are sequences of one-character strings.  null is the record Null,       *)
(* undefined is Undefined (UndefinedList where a list is expected,         *)
(* UndefinedString where a string is expected).                            *)
(***************************************************************************)
EXTENDS Integers, Sequences, FiniteSets, Bags, TLC

VARIABLES
    \* ---- Identity Store state (authStore.ts 48-56)
    user, isLoggedIn, verification,
    \* the login / signup calls suspended in `await new Promise(setTimeout)`
    timers,
    \* the wall clock read by Date.now(), in milliseconds
    now,
    \* the ids signup has assigned in this session, in order (observer of line 84)
    signupIds,
    \* the item 'auth-storage' of the browser's storage, Null while absent
    authStorage,
    \* ---- Admin Store state (part_000 112-132)
    isAdminLoggedIn, adminUser, users, orders, products, dashboardStats,
    \* the Admin Store calls suspended in an await
    inflight,
    \* the item 'admin-storage' of the browser's storage, Null while absent
    adminStorage,
    \* the number of the invocation that was the last adminLogout, 0 before any
    loggedOutAt,
    \* ---- observers
    \* the last operation that ran a step, with its arguments and return value
    event,
    \* the number of operations invoked by the UI so far
    ops

authState  == <<user, isLoggedIn, verification>>
authVars   == <<user, isLoggedIn, verification, timers, now, signupIds, authStorage>>
adminState == <<isAdminLoggedIn, adminUser, users, orders, products, dashboardStats>>
adminVars  == <<isAdminLoggedIn, adminUser, users, orders, products, dashboardStats,
                inflight, adminStorage, loggedOutAt>>
vars       == <<user, isLoggedIn, verification, timers, now, signupIds, authStorage,
                isAdminLoggedIn, adminUser, users, orders, products, dashboardStats,
                inflight, adminStorage, loggedOutAt, event, ops>>

---------------------------------------------------------------------------
(* Bounds of the model *)

\* Identity Store operations the UI invokes in one behaviour
MaxOps == 3
\* Admin Store operations the UI invokes in one behaviour
MaxAdminOps == 2
\* calls suspended at the same time, per store
MaxInFlight == 2
\* longest email tried
MaxEmailLen == 2
\* longest password tried
MaxPasswordLen == 6
\* clock ticks in one behaviour
MaxTicks == 2

---------------------------------------------------------------------------
(* Values *)

\* null where an object is expected
Null == [null |-> TRUE]
\* undefined where an object is expected, and where a list is expected
Undefined == [undefined |-> TRUE]
UndefinedList == <<Undefined>>
\* null where a verification method ('email' | 'phone' | null) is expected
NoMethod == "null"
\* undefined where a string is expected
UndefinedString == <<"undefined">>

\* the delay of setTimeout(resolve, 1000) in login and signup
SimulatedDelay == 1000
\* the shortest password login accepts
MinPasswordLength == 6

\* the clock advances in steps of one simulated delay
TickMs == SimulatedDelay

RECURSIVE SeqsUpTo(_, _)
SeqsUpTo(S, n) ==
    IF n = 0 THEN {<<>>}
    ELSE LET shorter == SeqsUpTo(S, n - 1)
         IN  shorter \cup {Append(s, c) : s \in shorter, c \in S}

Emails == SeqsUpTo({"a", "@"}, MaxEmailLen)

Repeat(c, n) == [i \in 1..n |-> c]

\* the empty password and the lengths around the threshold
Passwords == {Repeat("p", n) : n \in {0} \cup ((MinPasswordLength - 1)..MaxPasswordLen)}

---------------------------------------------------------------------------
(* Pure functions of the Identity Store *)

DigitChars == <<"0", "1", "2", "3", "4", "5", "6", "7", "8", "9">>

\* Number.prototype.toString() of a non-negative integer: its decimal digits
RECURSIVE toString(_)
toString(n) ==
    IF n < 10 THEN <<DigitChars[n + 1]>>
    ELSE toString(n \div 10) \o <<DigitChars[(n % 10) + 1]>>

\* Date.prototype.toISOString(): a rendering of the clock reading
toISOString(ms) == <<"T">> \o toString(ms)

\* email.split('@')[0]: the characters before the first '@', all of them if none
RECURSIVE splitAtFirst(_)
splitAtFirst(s) ==
    IF s = <<>> THEN <<>>
    ELSE IF Head(s) = "@" THEN <<>>
    ELSE <<Head(s)>> \o splitAtFirst(Tail(s))

InitialVerification ==
    [emailVerificationSent |-> FALSE,
     phoneVerificationSent |-> FALSE,
     emailVerified |-> FALSE,
     phoneVerified |-> FALSE,
     verificationMethod |-> NoMethod]

\* the condition of login's if: `email && password.length >= 6`
loginAccepts_orShorter(email, password) ==
    email # <<>> /\ Len(password) >= MinPasswordLength - 1
loginAccepts(email, password) ==
    email # <<>> /\ Len(password) >= MinPasswordLength

\* the user record login builds
loginUser_wholeEmailAsName(email, t) ==
    [id |-> <<"1">>, email |-> email, name |-> email,
     joinDate |-> toISOString(t), isEmailVerified |-> TRUE, isPhoneVerified |-> FALSE]
loginUser(email, t) ==
    [id |-> <<"1">>,
     email |-> email,
     name |-> splitAtFirst(email),
     joinDate |-> toISOString(t),
     isEmailVerified |-> TRUE,
     isPhoneVerified |-> FALSE]

\* the user record signup builds; userData.phone is undefined when not supplied
signupUser(userData, t) ==
    [id |-> toString(t),
     email |-> userData.email,
     name |-> userData.name,
     phone |-> IF "phone" \in DOMAIN userData THEN userData.phone ELSE UndefinedString,
     joinDate |-> toISOString(t),
     isEmailVerified |-> FALSE,
     isPhoneVerified |-> FALSE]

\* the object spread { ...a, ...b }
Spread(a, b) ==
    [f \in DOMAIN a \cup DOMAIN b |-> IF f \in DOMAIN b THEN b[f] ELSE a[f]]

\* the partial state logout passes to set
logoutPatch_userOnly ==
    [user |-> Null, verification |-> InitialVerification]
logoutPatch_keepVerification ==
    [user |-> Null, isLoggedIn |-> FALSE]
logoutPatch ==
    [user |-> Null, isLoggedIn |-> FALSE, verification |-> InitialVerification]

\* the partial state updateProfile passes to set, none when there is no user
updateProfilePatch_noGuard(u, userData) ==
    [user |-> IF u = Null THEN userData ELSE Spread(u, userData)]
updateProfilePatch(u, userData) ==
    IF u # Null THEN [user |-> Spread(u, userData)] ELSE Null

\* the durable subset of the Identity Store (authStore.ts 162-165)
authPartialize_userOnly(state) == [user |-> state.user]
authPartialize(state) == [user |-> state.user, isLoggedIn |-> state.isLoggedIn]

\* the optional fields of User (authStore.ts 9-10)
OptionalUserFields == {"phone", "address"}

\* The durable subset as it comes back from the storage, through JSON.stringify
\* and JSON.parse: a property of user whose value is undefined is left out.
authStored(durable) ==
    [f \in DOMAIN durable |->
        IF f = "user" /\ durable.user # Null
        THEN LET u == durable.user
             IN  [g \in {h \in DOMAIN u :
                           ~(h \in OptionalUserFields /\ u[h] = UndefinedString)} |-> u[g]]
        ELSE durable[f]]

\* zustand's set(partial) on the Identity Store: a shallow merge into the state,
\* after which the persist middleware writes the durable subset to the storage
AuthSet(partial) ==
    /\ user' = IF "user" \in DOMAIN partial THEN partial.user ELSE user
    /\ isLoggedIn' = IF "isLoggedIn" \in DOMAIN partial THEN partial.isLoggedIn ELSE isLoggedIn
    /\ verification' = IF "verification" \in DOMAIN partial
                       THEN partial.verification ELSE verification
    /\ authStorage' = authStored(authPartialize([user |-> user', isLoggedIn |-> isLoggedIn',
                                                  verification |-> verification']))

---------------------------------------------------------------------------
(* Inputs of the Identity Store *)

SignupInputs ==
    {[email |-> <<"a", "@">>, password |-> Repeat("p", MinPasswordLength), name |-> <<"n">>],
     [email |-> <<"a", "@">>, password |-> Repeat("p", MinPasswordLength), name |-> <<"n">>,
      phone |-> <<"7">>]}

ProfileInputs ==
    {[name |-> <<"X">>],
     [phone |-> <<"5">>, address |-> <<"h">>],
     [isPhoneVerified |-> TRUE]}

Methods == {"email", "phone"}

AuthUnchanged == UNCHANGED authVars
AdminUnchanged == UNCHANGED adminVars

\* the UI may invoke one more Identity Store operation
CanInvoke == ops < MaxOps

---------------------------------------------------------------------------
(* Identity Store operations *)

\* login, up to its await (authStore.ts 58-60)
login(email, password) ==
    /\ CanInvoke
    /\ BagCardinality(timers) < MaxInFlight
    /\ timers' = timers (+) SetToBag({[op |-> "login", email |-> email,
                                       password |-> password,
                                       due |-> now + SimulatedDelay]})
    /\ ops' = ops + 1
    /\ UNCHANGED <<user, isLoggedIn, verification, now, signupIds, authStorage, event>>
    /\ AdminUnchanged

\* login, from the end of the delay to its return (authStore.ts 63-76)
loginResume(t) ==
    /\ t.op = "login"
    /\ now >= t.due
    /\ timers' = timers (-) SetToBag({t})
    /\ IF loginAccepts(t.email, t.password)
       THEN /\ AuthSet([user |-> loginUser(t.email, now), isLoggedIn |-> TRUE])
            /\ event' = [op |-> "login", email |-> t.email, password |-> t.password,
                         ret |-> TRUE]
       ELSE /\ UNCHANGED <<user, isLoggedIn, verification, authStorage>>
            /\ event' = [op |-> "login", email |-> t.email, password |-> t.password,
                         ret |-> FALSE]
    /\ UNCHANGED <<now, signupIds, ops>>
    /\ AdminUnchanged

\* signup, up to its await (authStore.ts 79-81)
signup(userData) ==
    /\ CanInvoke
    /\ BagCardinality(timers) < MaxInFlight
    /\ timers' = timers (+) SetToBag({[op |-> "signup", userData |-> userData,
                                       due |-> now + SimulatedDelay]})
    /\ ops' = ops + 1
    /\ UNCHANGED <<user, isLoggedIn, verification, now, signupIds, authStorage, event>>
    /\ AdminUnchanged

\* signup, from the end of the delay to its return (authStore.ts 83-94)
signupResume(t) ==
    /\ t.op = "signup"
    /\ now >= t.due
    /\ timers' = timers (-) SetToBag({t})
    /\ AuthSet([user |-> signupUser(t.userData, now), isLoggedIn |-> TRUE])
    /\ signupIds' = Append(signupIds, signupUser(t.userData, now).id)
    /\ event' = [op |-> "signup", ret |-> TRUE]
    /\ UNCHANGED <<now, ops>>
    /\ AdminUnchanged

\* authStore.ts 97-109; the event keeps what logout found, and what ran before it
logout ==
    /\ CanInvoke
    /\ AuthSet(logoutPatch)
    /\ event' = [op |-> "logout", after |-> event, hadUser |-> user # Null,
                 hadVerification |-> verification # InitialVerification]
    /\ ops' = ops + 1
    /\ UNCHANGED <<timers, now, signupIds>>
    /\ AdminUnchanged

\* authStore.ts 111-116
updateProfile(userData) ==
    /\ CanInvoke
    /\ LET patch == updateProfilePatch(user, userData)
       IN  IF patch # Null
           THEN AuthSet(patch)
           ELSE UNCHANGED <<user, isLoggedIn, verification, authStorage>>
    /\ event' = [op |-> "updateProfile", userData |-> userData, hadUser |-> user # Null]
    /\ ops' = ops + 1
    /\ UNCHANGED <<timers, now, signupIds>>
    /\ AdminUnchanged

\* one of the five verification setters (authStore.ts 118-146):
\* set(state => ({ verification: { ...state.verification, [field]: value } }))
setVerificationField_fromInitial(name, field, value) ==
    /\ CanInvoke
    /\ AuthSet([verification |-> [InitialVerification EXCEPT ![field] = value]])
    /\ event' = [op |-> name, value |-> value]
    /\ ops' = ops + 1
    /\ UNCHANGED <<timers, now, signupIds>>
    /\ AdminUnchanged
setVerificationField(name, field, value) ==
    /\ CanInvoke
    /\ AuthSet([verification |-> [verification EXCEPT ![field] = value]])
    /\ event' = [op |-> name, value |-> value]
    /\ ops' = ops + 1
    /\ UNCHANGED <<timers, now, signupIds>>
    /\ AdminUnchanged

setVerificationMethod(method) ==
    setVerificationField("setVerificationMethod", "verificationMethod", method)

setEmailVerificationSent(sent) ==
    setVerificationField("setEmailVerificationSent", "emailVerificationSent", sent)

setPhoneVerificationSent(sent) ==
    setVerificationField("setPhoneVerificationSent", "phoneVerificationSent", sent)

setEmailVerified(verified) ==
    setVerificationField("setEmailVerified", "emailVerified", verified)

setPhoneVerified(verified) ==
    setVerificationField("setPhoneVerified", "phoneVerified", verified)

\* authStore.ts 148-158
resetVerification ==
    /\ CanInvoke
    /\ AuthSet([verification |-> InitialVerification])
    /\ event' = [op |-> "resetVerification"]
    /\ ops' = ops + 1
    /\ UNCHANGED <<timers, now, signupIds>>
    /\ AdminUnchanged

\* The page is loaded again: the store is created anew (authStore.ts 48-56), the
\* persist middleware merges the stored durable subset into it (160-167), and the
\* calls that were suspended are gone with the old page.
authReload ==
    LET stored(f, initial) ==
            IF authStorage # Null /\ f \in DOMAIN authStorage
            THEN authStorage[f] ELSE initial
    IN  /\ user' = stored("user", Null)
        /\ isLoggedIn' = stored("isLoggedIn", FALSE)
        /\ verification' = stored("verification", InitialVerification)
        /\ timers' = EmptyBag
        /\ signupIds' = <<>>
        /\ event' = [op |-> "reload", hadUser |-> user # Null,
                     hadVerification |-> verification # InitialVerification]
        /\ UNCHANGED <<now, authStorage, ops>>
        /\ AdminUnchanged

\* time passes
Tick ==
    /\ now < MaxTicks * TickMs
    /\ now' = now + TickMs
    /\ UNCHANGED <<user, isLoggedIn, verification, timers, signupIds, authStorage,
                   event, ops>>
    /\ AdminUnchanged

AuthNext ==
    \/ \E email \in Emails, password \in Passwords : login(email, password)
    \/ \E t \in BagToSet(timers) : loginResume(t)
    \/ \E userData \in SignupInputs : signup(userData)
    \/ \E t \in BagToSet(timers) : signupResume(t)
    \/ logout
    \/ \E userData \in ProfileInputs : updateProfile(userData)
    \/ \E method \in Methods : setVerificationMethod(method)
    \/ \E sent \in BOOLEAN : setEmailVerificationSent(sent)
    \/ \E sent \in BOOLEAN : setPhoneVerificationSent(sent)
    \/ \E verified \in BOOLEAN : setEmailVerified(verified)
    \/ \E verified \in BOOLEAN : setPhoneVerified(verified)
    \/ resetVerification
    \/ authReload
    \/ Tick

---------------------------------------------------------------------------
(* Values of the Admin Store *)

\* the record of the store's initial state (part_000 117-132), its counts
InitialDashboardStats ==
    [totalUsers |-> 0, totalOrders |-> 0, pending |-> 0]

\* what the remote service may return
AdminUsers ==
    {[id |-> "a1", email |-> "root@x", role |-> "admin"],
     [id |-> "a2", email |-> "boss@x", role |-> "admin"]}

ServerStats == [totalUsers |-> 2, totalOrders |-> 2, pending |-> 1]

ServerUsers ==
    <<[id |-> "u1", name |-> "n1", isActive |-> TRUE],
      [id |-> "u2", name |-> "n2", isActive |-> FALSE]>>

ServerProducts ==
    <<[id |-> 1, name |-> "p1", stock |-> 5, sales |-> 3]>>

CreatedProducts ==
    {[id |-> 2, name |-> "p2", stock |-> 1, sales |-> 0],
     [id |-> 3, name |-> "p2", stock |-> 1, sales |-> 0]}

ServerOrders ==
    <<[id |-> "o1", userId |-> "u1", status |-> "pending"],
      [id |-> "o2", userId |-> "u2", status |-> "paid"]>>

\* the JSON bodies an endpoint may answer with: { success: true, <payload> } or
\* { success: false } without a payload
Failure == [success |-> FALSE]
Success(data) == [success |-> TRUE, data |-> data]

AuthBodies == {[success |-> TRUE, user |-> a] : a \in AdminUsers} \cup {Failure}
DashboardBodies == {Success(ServerStats), Failure}
UsersBodies == {Success(ServerUsers), Failure}
ProductsBodies == {Success(ServerProducts), Failure}
OrdersBodies == {Success(ServerOrders), Failure}
SearchBodies == {Success(<<>>), Success(<<ServerUsers[1]>>), Failure}
CreateBodies == {Success(p) : p \in CreatedProducts} \cup {Failure}
AckBodies == {[success |-> TRUE], Failure}

\* what fetch and response.json() may do with a request whose body, if it
\* arrives, is one of Bodies
HttpResponses(Bodies) ==
    {[fetch |-> "rejects"],
     [fetch |-> "resolves", ok |-> FALSE],
     [fetch |-> "resolves", ok |-> TRUE, json |-> "rejects"]}
    \cup {[fetch |-> "resolves", ok |-> TRUE, json |-> "resolves", body |-> b] : b \in Bodies}

\* result.data where a list, and where an object, is expected
ListData(body) == IF "data" \in DOMAIN body THEN body.data ELSE UndefinedList
ObjData(body) == IF "data" \in DOMAIN body THEN body.data ELSE Undefined

---------------------------------------------------------------------------
(* Pure functions of the Admin Store *)

Thrown == [threw |-> TRUE]
Returned(value) == [threw |-> FALSE, value |-> value]

\* part_000 93-107: throws when fetch rejects, when the status is not 2xx and
\* when the body is not JSON; returns the parsed body otherwise
apiCall(resp) ==
    IF resp.fetch = "rejects" THEN Thrown
    ELSE IF ~resp.ok THEN Thrown
    ELSE IF resp.json = "rejects" THEN Thrown
    ELSE Returned(resp.body)

\* try { body } catch (error) { handler }: how the statement completes, from how
\* its two blocks complete; every operation of the store but adminLogout is one
\* such statement (part_000 135-150, 158-165, 169-185, 191-197, 201-214, ...)
tryCatch_rethrow(body, handler) == body
tryCatch(body, handler) == IF body.threw THEN handler ELSE body

\* a try block that returns value unless something in it threw
TryBlock(threw, value) == IF threw THEN Thrown ELSE Returned(value)

\* how an awaited apiCall ended, as the handlers distinguish it
Outcome(r) == IF r.threw THEN "throw" ELSE IF r.value.success THEN "ok" ELSE "fail"

\* the partial state adminLogin passes to set (part_000 142)
adminLoginPatch_flagOnly(result) ==
    [isAdminLoggedIn |-> TRUE]
adminLoginPatch(result) ==
    [isAdminLoggedIn |-> TRUE, adminUser |-> result.user]

\* the partial state adminLogout passes to set (part_000 154)
adminLogoutPatch_clearCache ==
    [isAdminLoggedIn |-> FALSE, adminUser |-> Null, users |-> <<>>, orders |-> <<>>,
     products |-> <<>>]
adminLogoutPatch ==
    [isAdminLoggedIn |-> FALSE, adminUser |-> Null]

\* updateDashboardStats (part_000 160-162): the partial state, none unless success
updateDashboardStatsPatch(result) ==
    IF result.success THEN [dashboardStats |-> ObjData(result)] ELSE Null

\* loadInitialData (part_000 177-182): the partial state built from the four results
loadInitialDataPatch(dashboardResult, usersResult, productsResult, ordersResult) ==
    [dashboardStats |-> ObjData(dashboardResult),
     users |-> ListData(usersResult),
     products |-> ListData(productsResult),
     orders |-> ListData(ordersResult)]

Endpoints == {"dashboard", "users", "products", "orders"}

EndpointBodies(ep) ==
    CASE ep = "dashboard" -> DashboardBodies
      [] ep = "users" -> UsersBodies
      [] ep = "products" -> ProductsBodies
      [] ep = "orders" -> OrdersBodies

Pending == [settled |-> FALSE]
Fulfilled(body) == [settled |-> TRUE, body |-> body]

\* the results of a loadInitialData call that have arrived
Arrived(t) == {ep \in Endpoints : t[ep].settled}

\* loadInitialData's catch (part_000 183-185): the partial state, none
loadInitialDataCatchPatch_keepArrived(t) ==
    LET slice == [dashboard |-> "dashboardStats", users |-> "users",
                  products |-> "products", orders |-> "orders"]
    IN  IF Arrived(t) = {} THEN Null
        ELSE [f \in {slice[ep] : ep \in Arrived(t)} |->
                 LET ep == CHOOSE e \in Arrived(t) : slice[e] = f
                 IN  IF ep = "dashboard" THEN ObjData(t[ep].body) ELSE ListData(t[ep].body)]
loadInitialDataCatchPatch(t) == Null

\* what searchUsers returns for a parsed body (part_000 194)
searchUsersReturn_dataAlways(result) == ListData(result)
searchUsersReturn(result) == IF result.success THEN ListData(result) ELSE <<>>

\* state.users.map(user => user.id === userId ? { ...user, isActive } : user)
usersMap_newRecord(us, userId, isActive) ==
    [i \in DOMAIN us |->
        IF us[i].id = userId THEN [id |-> userId, isActive |-> isActive] ELSE us[i]]
usersMap(us, userId, isActive) ==
    [i \in DOMAIN us |->
        IF us[i].id = userId THEN Spread(us[i], [isActive |-> isActive]) ELSE us[i]]

\* [...state.products, result.data]
productsAppend(ps, data) == Append(ps, data)

\* state.products.map(p => p.id === productId ? { ...p, ...updates } : p)
productsMap(ps, productId, updates) ==
    [i \in DOMAIN ps |-> IF ps[i].id = productId THEN Spread(ps[i], updates) ELSE ps[i]]

\* state.products.filter(p => p.id !== productId)
productsFilter(ps, productId) ==
    SelectSeq(ps, LAMBDA p : p.id # productId)

\* state.orders.map(order => order.id === orderId ? { ...order, status } : order)
ordersMap(os, orderId, status) ==
    [i \in DOMAIN os |->
        IF os[i].id = orderId THEN Spread(os[i], [status |-> status]) ELSE os[i]]

\* the durable subset of the Admin Store (part_000 293-299) as JSON.stringify
\* writes it: a property whose value is undefined is left out
adminPartialize(l, a, us, os, ps) ==
    LET kept == {"isAdminLoggedIn", "adminUser"}
                \cup (IF us # UndefinedList THEN {"users"} ELSE {})
                \cup (IF os # UndefinedList THEN {"orders"} ELSE {})
                \cup (IF ps # UndefinedList THEN {"products"} ELSE {})
    IN  [f \in kept |->
            CASE f = "isAdminLoggedIn" -> l
              [] f = "adminUser" -> a
              [] f = "users" -> us
              [] f = "orders" -> os
              [] f = "products" -> ps]

\* zustand's set(partial) on the Admin Store: a shallow merge into the state,
\* after which the persist middleware writes the durable subset to the storage
AdminSet(partial) ==
    /\ isAdminLoggedIn' = IF "isAdminLoggedIn" \in DOMAIN partial
                          THEN partial.isAdminLoggedIn ELSE isAdminLoggedIn
    /\ adminUser' = IF "adminUser" \in DOMAIN partial THEN partial.adminUser ELSE adminUser
    /\ users' = IF "users" \in DOMAIN partial THEN partial.users ELSE users
    /\ orders' = IF "orders" \in DOMAIN partial THEN partial.orders ELSE orders
    /\ products' = IF "products" \in DOMAIN partial THEN partial.products ELSE products
    /\ dashboardStats' = IF "dashboardStats" \in DOMAIN partial
                         THEN partial.dashboardStats ELSE dashboardStats
    /\ adminStorage' = adminPartialize(isAdminLoggedIn', adminUser', users', orders', products')

\* set is not called
AdminKeep ==
    UNCHANGED <<isAdminLoggedIn, adminUser, users, orders, products, dashboardStats,
                adminStorage>>

\* set(patch), or nothing when there is no patch
AdminApply(patch) == IF patch = Null THEN AdminKeep ELSE AdminSet(patch)

---------------------------------------------------------------------------
(* Inputs of the Admin Store *)

AdminCredentials == {[email |-> "root@x", password |-> "secret"]}
UserIds == {"u1", "u3"}
ProductInputs == {[name |-> "p2", stock |-> 1]}
ProductIds == {1, 2}
ProductUpdates == {[name |-> "q"], [stock |-> 0, sales |-> 3]}
OrderIds == {"o1", "o2"}
OrderStatuses == {"delivered", "cancelled"}
Queries == {"n"}

\* the UI may invoke one more Admin Store operation, and one more that suspends
CanInvokeAdmin == ops < MaxAdminOps
CanCall == CanInvokeAdmin /\ BagCardinality(inflight) < MaxInFlight

\* a call is suspended in its await
Suspend(t) ==
    /\ inflight' = inflight (+) SetToBag({t})
    /\ ops' = ops + 1
    /\ AdminKeep
    /\ UNCHANGED <<event, loggedOutAt>>
    /\ AuthUnchanged

NewLoad(caller) ==
    [op |-> "loadInitialData", caller |-> caller, dashboard |-> Pending,
     users |-> Pending, products |-> Pending, orders |-> Pending]

---------------------------------------------------------------------------
(* Admin Store operations *)

\* adminLogin up to its await of apiCall (part_000 134-139); the suspended
\* call keeps, for the properties, the number of its invocation
adminLogin(email, password) ==
    /\ CanCall
    /\ Suspend([op |-> "adminLogin", invokedAt |-> ops + 1])

\* adminLogin from the answer of /api/admin/auth to its await of
\* loadInitialData, which starts its four requests (141-143, 168-175), or to
\* its return of false (146-149)
adminLoginResume(t, resp) ==
    /\ t.op = "adminLogin"
    /\ LET r == apiCall(resp)
       IN  IF Outcome(r) = "ok"
           THEN /\ AdminSet(adminLoginPatch(r.value))
                /\ inflight' = (inflight (-) SetToBag({t})) (+) SetToBag({NewLoad("adminLogin")})
                /\ event' = [op |-> "adminLogin", outcome |-> "ok", user |-> r.value.user]
           ELSE /\ AdminKeep
                /\ inflight' = inflight (-) SetToBag({t})
                /\ event' = [op |-> "adminLogin", outcome |-> Outcome(r), ret |-> FALSE,
                             completes |-> tryCatch(TryBlock(r.threw, FALSE),
                                                    Returned(FALSE))]
    /\ UNCHANGED <<ops, loggedOutAt>>
    /\ AuthUnchanged

\* part_000 153-155
adminLogout ==
    /\ CanInvokeAdmin
    /\ AdminSet(adminLogoutPatch)
    /\ event' = [op |-> "adminLogout", wasLoggedIn |-> isAdminLoggedIn]
    /\ ops' = ops + 1
    /\ loggedOutAt' = ops + 1
    /\ UNCHANGED inflight
    /\ AuthUnchanged

\* updateDashboardStats up to its await (part_000 157-159)
updateDashboardStats ==
    /\ CanCall
    /\ Suspend([op |-> "updateDashboardStats", caller |-> "ui"])

\* updateDashboardStats from the answer to its return (160-165)
updateDashboardStatsResume(t, resp) ==
    /\ t.op = "updateDashboardStats"
    /\ LET r == apiCall(resp)
       IN  /\ IF r.threw THEN AdminKeep ELSE AdminApply(updateDashboardStatsPatch(r.value))
           /\ event' = [op |-> "updateDashboardStats", outcome |-> Outcome(r),
                        caller |-> t.caller,
                        completes |-> tryCatch(TryBlock(r.threw, Undefined),
                                               Returned(Undefined))]
    /\ inflight' = inflight (-) SetToBag({t})
    /\ UNCHANGED <<ops, loggedOutAt>>
    /\ AuthUnchanged

\* loadInitialData called by the UI, up to its await of Promise.all (168-175)
loadInitialData ==
    /\ CanCall
    /\ Suspend(NewLoad("ui"))

\* One of the four requests of a loadInitialData call is answered.  Promise.all
\* rejects with the first request that throws, and the catch runs (183-185);
\* it resolves when the fourth result arrives, and set runs (177-182).  A call
\* that adminLogin awaits then lets adminLogin return true (143-144).
loadInitialDataFetched(t, ep, resp) ==
    /\ t.op = "loadInitialData"
    /\ ~t[ep].settled
    /\ LET r == apiCall(resp)
           got == [t EXCEPT ![ep] = Fulfilled(r.value)]
           completes == tryCatch(TryBlock(r.threw, Undefined), Returned(Undefined))
           returns == IF t.caller = "adminLogin"
                      THEN [adminLogin |->
                               [ret |-> TRUE,
                                completes |-> tryCatch(TryBlock(completes.threw, TRUE),
                                                       Returned(FALSE))]]
                      ELSE [ui |-> TRUE]
       IN  IF r.threw
           THEN /\ AdminApply(loadInitialDataCatchPatch(t))
                /\ inflight' = inflight (-) SetToBag({t})
                /\ event' = Spread([op |-> "loadInitialData", outcome |-> "throw",
                                    endpoint |-> ep, arrived |-> Arrived(t),
                                    completes |-> completes], returns)
           ELSE IF Arrived(got) = Endpoints
           THEN /\ AdminSet(loadInitialDataPatch(got.dashboard.body, got.users.body,
                                                 got.products.body, got.orders.body))
                /\ inflight' = inflight (-) SetToBag({t})
                /\ event' = Spread([op |-> "loadInitialData",
                                    outcome |-> IF \A e \in Endpoints : got[e].body.success
                                                THEN "ok" ELSE "fail",
                                    endpoint |-> ep, body |-> r.value,
                                    completes |-> completes], returns)
           ELSE /\ AdminKeep
                /\ inflight' = (inflight (-) SetToBag({t})) (+) SetToBag({got})
                /\ event' = [op |-> "fetch", endpoint |-> ep]
    /\ UNCHANGED <<ops, loggedOutAt>>
    /\ AuthUnchanged

\* searchUsers up to its await (part_000 190-192)
searchUsers(query) ==
    /\ CanCall
    /\ Suspend([op |-> "searchUsers", query |-> query])

\* searchUsers from the answer to its return (193-197)
searchUsersResume(t, resp) ==
    /\ t.op = "searchUsers"
    /\ LET r == apiCall(resp)
           ret == IF r.threw THEN <<>> ELSE searchUsersReturn(r.value)
       IN  event' = [op |-> "searchUsers", outcome |-> Outcome(r),
                     data |-> IF r.threw THEN UndefinedList ELSE ListData(r.value),
                     ret |-> ret,
                     completes |-> tryCatch(TryBlock(r.threw, ret), Returned(<<>>))]
    /\ AdminKeep
    /\ inflight' = inflight (-) SetToBag({t})
    /\ UNCHANGED <<ops, loggedOutAt>>
    /\ AuthUnchanged

\* updateUserStatus up to its await (part_000 200-205)
updateUserStatus(userId, isActive) ==
    /\ CanCall
    /\ Suspend([op |-> "updateUserStatus", userId |-> userId, isActive |-> isActive])

\* updateUserStatus from the answer to its return (207-214); with users
\* undefined the updater throws a TypeError, which the catch swallows
updateUserStatusResume(t, resp) ==
    /\ t.op = "updateUserStatus"
    /\ LET r == apiCall(resp)
       IN  /\ IF Outcome(r) = "ok" /\ users # UndefinedList
              THEN AdminSet([users |-> usersMap(users, t.userId, t.isActive)])
              ELSE AdminKeep
           /\ event' = [op |-> "updateUserStatus", outcome |-> Outcome(r),
                        userId |-> t.userId, isActive |-> t.isActive,
                        completes |->
                            tryCatch(TryBlock(r.threw \/ (Outcome(r) = "ok"
                                                          /\ users = UndefinedList),
                                              Undefined),
                                     Returned(Undefined))]
    /\ inflight' = inflight (-) SetToBag({t})
    /\ UNCHANGED <<ops, loggedOutAt>>
    /\ AuthUnchanged

\* addProduct up to its await (part_000 219-224); the suspended call keeps, for
\* the properties, the collection as it was at the call, which the code never
\* reads
addProduct(productData) ==
    /\ CanCall
    /\ Suspend([op |-> "addProduct", productData |-> productData, snapshot |-> products])

\* addProduct from the answer to its return (226-233); with products undefined
\* the updater throws a TypeError, which the catch swallows
addProductResume_fromSnapshot(t, resp) ==
    /\ t.op = "addProduct"
    /\ LET r == apiCall(resp)
       IN  /\ IF Outcome(r) = "ok" /\ t.snapshot # UndefinedList
              THEN AdminSet([products |-> productsAppend(t.snapshot, ObjData(r.value))])
              ELSE AdminKeep
           /\ event' = Spread(IF Outcome(r) = "ok"
                              THEN [op |-> "addProduct", outcome |-> "ok",
                                    data |-> ObjData(r.value), snapshot |-> t.snapshot]
                              ELSE [op |-> "addProduct", outcome |-> Outcome(r)],
                              [completes |-> Returned(Undefined)])
    /\ inflight' = inflight (-) SetToBag({t})
    /\ UNCHANGED <<ops, loggedOutAt>>
    /\ AuthUnchanged
addProductResume(t, resp) ==
    /\ t.op = "addProduct"
    /\ LET r == apiCall(resp)
       IN  /\ IF Outcome(r) = "ok" /\ products # UndefinedList
              THEN AdminSet([products |-> productsAppend(products, ObjData(r.value))])
              ELSE AdminKeep
           /\ event' = Spread(IF Outcome(r) = "ok"
                              THEN [op |-> "addProduct", outcome |-> "ok",
                                    data |-> ObjData(r.value), snapshot |-> t.snapshot]
                              ELSE [op |-> "addProduct", outcome |-> Outcome(r)],
                              [completes |->
                                  tryCatch(TryBlock(r.threw \/ (Outcome(r) = "ok"
                                                                /\ products = UndefinedList),
                                                    Undefined),
                                           Returned(Undefined))])
    /\ inflight' = inflight (-) SetToBag({t})
    /\ UNCHANGED <<ops, loggedOutAt>>
    /\ AuthUnchanged

\* updateProduct up to its await (part_000 236-241)
updateProduct(productId, updates) ==
    /\ CanCall
    /\ Suspend([op |-> "updateProduct", productId |-> productId, updates |-> updates])

\* updateProduct from the answer to its return (243-252)
updateProductResume(t, resp) ==
    /\ t.op = "updateProduct"
    /\ LET r == apiCall(resp)
       IN  /\ IF Outcome(r) = "ok" /\ products # UndefinedList
              THEN AdminSet([products |-> productsMap(products, t.productId, t.updates)])
              ELSE AdminKeep
           /\ event' = [op |-> "updateProduct", outcome |-> Outcome(r),
                        productId |-> t.productId, updates |-> t.updates,
                        completes |->
                            tryCatch(TryBlock(r.threw \/ (Outcome(r) = "ok"
                                                          /\ products = UndefinedList),
                                              Undefined),
                                     Returned(Undefined))]
    /\ inflight' = inflight (-) SetToBag({t})
    /\ UNCHANGED <<ops, loggedOutAt>>
    /\ AuthUnchanged

\* deleteProduct up to its await (part_000 255-259)
deleteProduct(productId) ==
    /\ CanCall
    /\ Suspend([op |-> "deleteProduct", productId |-> productId])

\* deleteProduct from the answer to its return (261-268)
deleteProductResume(t, resp) ==
    /\ t.op = "deleteProduct"
    /\ LET r == apiCall(resp)
       IN  /\ IF Outcome(r) = "ok" /\ products # UndefinedList
              THEN AdminSet([products |-> productsFilter(products, t.productId)])
              ELSE AdminKeep
           /\ event' = [op |-> "deleteProduct", outcome |-> Outcome(r),
                        productId |-> t.productId,
                        completes |->
                            tryCatch(TryBlock(r.threw \/ (Outcome(r) = "ok"
                                                          /\ products = UndefinedList),
                                              Undefined),
                                     Returned(Undefined))]
    /\ inflight' = inflight (-) SetToBag({t})
    /\ UNCHANGED <<ops, loggedOutAt>>
    /\ AuthUnchanged

\* updateOrderStatus up to its await (part_000 273-278)
updateOrderStatus(orderId, status) ==
    /\ CanCall
    /\ Suspend([op |-> "updateOrderStatus", orderId |-> orderId, status |-> status])

\* updateOrderStatus from the answer to its return (280-288): on success the
\* orders are patched and then updateDashboardStats is called, not awaited; with
\* orders undefined the updater throws a TypeError before that call, and the
\* catch swallows it
updateOrderStatusResume(t, resp) ==
    /\ t.op = "updateOrderStatus"
    /\ LET r == apiCall(resp)
       IN  /\ IF Outcome(r) = "ok" /\ orders # UndefinedList
              THEN /\ AdminSet([orders |-> ordersMap(orders, t.orderId, t.status)])
                   /\ inflight' = (inflight (-) SetToBag({t}))
                                  (+) SetToBag({[op |-> "updateDashboardStats",
                                                 caller |-> "updateOrderStatus"]})
              ELSE /\ AdminKeep
                   /\ inflight' = inflight (-) SetToBag({t})
           /\ event' = [op |-> "updateOrderStatus", outcome |-> Outcome(r),
                        orderId |-> t.orderId, status |-> t.status,
                        completes |->
                            tryCatch(TryBlock(r.threw \/ (Outcome(r) = "ok"
                                                          /\ orders = UndefinedList),
                                              Undefined),
                                     Returned(Undefined))]
    /\ UNCHANGED <<ops, loggedOutAt>>
    /\ AuthUnchanged

\* The page is loaded again: the store is created anew (part_000 112-132), the
\* persist middleware merges the stored durable subset into it (291-300), and
\* the calls that were suspended are gone with the old page.
adminReload ==
    LET stored(f, initial) ==
            IF adminStorage # Null /\ f \in DOMAIN adminStorage
            THEN adminStorage[f] ELSE initial
    IN  /\ isAdminLoggedIn' = stored("isAdminLoggedIn", FALSE)
        /\ adminUser' = stored("adminUser", Null)
        /\ users' = stored("users", <<>>)
        /\ orders' = stored("orders", <<>>)
        /\ products' = stored("products", <<>>)
        /\ dashboardStats' = InitialDashboardStats
        /\ inflight' = EmptyBag
        /\ event' = [op |-> "reload"]
        /\ UNCHANGED <<adminStorage, loggedOutAt, ops>>
        /\ AuthUnchanged

AdminNext ==
    \/ \E c \in AdminCredentials : adminLogin(c.email, c.password)
    \/ \E t \in BagToSet(inflight), resp \in HttpResponses(AuthBodies) :
          adminLoginResume(t, resp)
    \/ adminLogout
    \/ updateDashboardStats
    \/ \E t \in BagToSet(inflight), resp \in HttpResponses(DashboardBodies) :
          updateDashboardStatsResume(t, resp)
    \/ loadInitialData
    \/ \E t \in BagToSet(inflight), ep \in Endpoints :
          \E resp \in HttpResponses(EndpointBodies(ep)) : loadInitialDataFetched(t, ep, resp)
    \/ \E query \in Queries : searchUsers(query)
    \/ \E t \in BagToSet(inflight), resp \in HttpResponses(SearchBodies) :
          searchUsersResume(t, resp)
    \/ \E userId \in UserIds, isActive \in BOOLEAN : updateUserStatus(userId, isActive)
    \/ \E t \in BagToSet(inflight), resp \in HttpResponses(AckBodies) :
          updateUserStatusResume(t, resp)
    \/ \E productData \in ProductInputs : addProduct(productData)
    \/ \E t \in BagToSet(inflight), resp \in HttpResponses(CreateBodies) :
          addProductResume(t, resp)
    \/ \E productId \in ProductIds, updates \in ProductUpdates :
          updateProduct(productId, updates)
    \/ \E t \in BagToSet(inflight), resp \in HttpResponses(AckBodies) :
          updateProductResume(t, resp)
    \/ \E productId \in ProductIds : deleteProduct(productId)
    \/ \E t \in BagToSet(inflight), resp \in HttpResponses(AckBodies) :
          deleteProductResume(t, resp)
    \/ \E orderId \in OrderIds, status \in OrderStatuses : updateOrderStatus(orderId, status)
    \/ \E t \in BagToSet(inflight), resp \in HttpResponses(AckBodies) :
          updateOrderStatusResume(t, resp)
    \/ adminReload

---------------------------------------------------------------------------
(* Initial state *)

Init ==
    /\ user = Null
    /\ isLoggedIn = FALSE
    /\ verification = InitialVerification
    /\ timers = EmptyBag
    /\ now = 0
    /\ signupIds = <<>>
    /\ authStorage = Null
    /\ isAdminLoggedIn = FALSE
    /\ adminUser = Null
    /\ users = <<>>
    /\ orders = <<>>
    /\ products = <<>>
    /\ dashboardStats = InitialDashboardStats
    /\ inflight = EmptyBag
    /\ adminStorage = Null
    /\ loggedOutAt = 0
    /\ event = [op |-> "none"]
    /\ ops = 0

\* the Identity Store alone, and the Admin Store alone: neither reads the other
AuthSpec == Init /\ [][AuthNext]_vars
AdminSpec == Init /\ [][AdminNext]_vars

Next == AuthNext \/ AdminNext
Spec == Init /\ [][Next]_vars

---------------------------------------------------------------------------
(* How a step is recognised in a property *)

\* the UI invoked an operation in this step
Invoked(name) == ops' = ops + 1 /\ event'.op = name

\* the suspended Identity Store call t ran to its return in this step
TimerFired(t) ==
    /\ ops' = ops
    /\ timers' = timers (-) SetToBag({t})
    /\ event'.op = t.op

---------------------------------------------------------------------------
(* Claims about the Admin Store *)

\* the suspended Admin Store call t went on in this step
AdminResumed(t) ==
    /\ ops' = ops
    /\ CopiesIn(t, inflight') < CopiesIn(t, inflight)
    /\ event'.op # "reload"

\* ... and ran to the end of its operation
AdminSettled(t) == AdminResumed(t) /\ event'.op = t.op

MutatingOps ==
    {"adminLogin", "updateDashboardStats", "loadInitialData", "updateUserStatus",
     "addProduct", "updateProduct", "deleteProduct", "updateOrderStatus"}

\* C1: when the remote response of an Admin Store operation other than
\* adminLogout carries success:false, or the request throws, the store state is
\* after the operation what it was before it.
C1_FailureLeavesStateUnchanged ==
    [][\A t \in BagToSet(inflight) :
          (AdminSettled(t) /\ t.op \in MutatingOps /\ event'.outcome \in {"fail", "throw"})
             => UNCHANGED adminState]_vars

\* the slice of the store each request of loadInitialData fills
SliceAfter(ep) ==
    CASE ep = "dashboard" -> dashboardStats'
      [] ep = "users" -> users'
      [] ep = "products" -> products'
      [] ep = "orders" -> orders'

\* result.data of a body, by the slice
DataFor(ep, body) == IF ep = "dashboard" THEN ObjData(body) ELSE ListData(body)

\* C2: when one of the four requests of loadInitialData throws, none of
\* dashboardStats, users, products, orders is changed by the call, whatever
\* the other requests returned; when none throws, the four slices are replaced
\* together, in the one step in which the last result arrives.
C2_LoadAllOrNothing ==
    [][\A t \in BagToSet(inflight) :
          (AdminResumed(t) /\ t.op = "loadInitialData")
             => IF event'.op = "fetch"
                THEN UNCHANGED adminState
                ELSE IF event'.outcome = "throw"
                THEN UNCHANGED adminState
                ELSE /\ \A ep \in Endpoints :
                           SliceAfter(ep) = DataFor(ep, IF t[ep].settled THEN t[ep].body
                                                        ELSE event'.body)
                     /\ UNCHANGED <<isAdminLoggedIn, adminUser>>]_vars

\* the products request has thrown after the three other requests had succeeded
C2_Witness ==
    /\ event.op = "loadInitialData"
    /\ event.outcome = "throw"
    /\ event.endpoint = "products"
    /\ event.arrived = {"dashboard", "users", "orders"}
    /\ users = <<>>
    /\ orders = <<>>
    /\ dashboardStats = InitialDashboardStats

\* C3: when an addProduct call settles after success:true, products is the
\* previous collection with the server-returned record appended at its end;
\* after success:false it is the previous collection.
C3_AddProductAppends ==
    [][\A t \in BagToSet(inflight) :
          (AdminSettled(t) /\ t.op = "addProduct")
             => /\ event'.outcome = "ok" => products' = Append(products, event'.data)
                /\ event'.outcome = "fail" => products' = products]_vars

\* the updateDashboardStats calls in flight
DashboardCalls(b) ==
    LET S == {x \in BagToSet(b) : x.op = "updateDashboardStats"}
    IN  BagCardinality([x \in S |-> CopiesIn(x, b)])

\* C4: when updateOrderStatus(orderId, status) gets a success response, one
\* updateDashboardStats call is started in the step that patches the orders,
\* and the patch changes only the status of the orders whose id is orderId;
\* no updateDashboardStats call is started for it in any other step.
C4_OrderPatchThenOneRefetch ==
    [][/\ \A t \in BagToSet(inflight) :
             (AdminSettled(t) /\ t.op = "updateOrderStatus")
                => IF event'.outcome = "ok"
                   THEN /\ DashboardCalls(inflight') = DashboardCalls(inflight) + 1
                        /\ DOMAIN orders' = DOMAIN orders
                        /\ \A i \in DOMAIN orders :
                              /\ DOMAIN orders'[i] = DOMAIN orders[i]
                              /\ \A f \in DOMAIN orders[i] :
                                    orders'[i][f] = IF orders[i].id = t.orderId /\ f = "status"
                                                   THEN t.status ELSE orders[i][f]
                        /\ UNCHANGED <<isAdminLoggedIn, adminUser, users, products,
                                       dashboardStats>>
                   ELSE /\ DashboardCalls(inflight') = DashboardCalls(inflight)
                        /\ UNCHANGED adminState
       /\ (ops' = ops /\ DashboardCalls(inflight') > DashboardCalls(inflight))
             => event'.op = "updateOrderStatus"]_vars

\* the loadInitialData calls an adminLogin is awaiting
AwaitedLoads(b) ==
    LET S == {x \in BagToSet(b) : x.op = "loadInitialData" /\ x.caller = "adminLogin"}
    IN  BagCardinality([x \in S |-> CopiesIn(x, b)])

\* C5: adminLogin returns false when the auth request throws or reports
\* success:false; on success:true it sets isAdminLoggedIn and adminUser to the
\* response's user and starts loadInitialData, and it returns true in the step
\* in which that loadInitialData settles, and in no other step.
C5_AdminLoginOrder ==
    [][/\ \A t \in BagToSet(inflight) :
             (AdminSettled(t) /\ t.op = "adminLogin")
                => IF event'.outcome = "ok"
                   THEN /\ isAdminLoggedIn' = TRUE
                        /\ adminUser' = event'.user
                        /\ "ret" \notin DOMAIN event'
                        /\ AwaitedLoads(inflight') = AwaitedLoads(inflight) + 1
                   ELSE /\ event'.ret = FALSE
                        /\ AwaitedLoads(inflight') = AwaitedLoads(inflight)
                        /\ UNCHANGED adminState
       /\ (ops' = ops /\ AwaitedLoads(inflight') > AwaitedLoads(inflight))
             => (event'.op = "adminLogin" /\ event'.outcome = "ok")
       /\ \A t \in BagToSet(inflight) :
             (AdminSettled(t) /\ t.op = "loadInitialData")
                => ("adminLogin" \in DOMAIN event' <=> t.caller = "adminLogin")
       /\ (ops' = ops /\ AwaitedLoads(inflight') < AwaitedLoads(inflight)
                      /\ event'.op # "reload")
             => (event'.op = "loadInitialData" /\ event'.adminLogin.ret = TRUE)]_vars

\* adminLogin has returned true after its loadInitialData filled the store
C5_Witness ==
    /\ event.op = "loadInitialData"
    /\ "adminLogin" \in DOMAIN event
    /\ event.adminLogin.ret = TRUE
    /\ event.outcome = "ok"
    /\ isAdminLoggedIn
    /\ adminUser \in AdminUsers
    /\ users = ServerUsers
    /\ orders = ServerOrders

---------------------------------------------------------------------------
(* Claims about the Identity Store *)

\* C6: a login with an empty email or a password shorter than 6 characters
\* returns false and leaves user and isLoggedIn as they were, in the step that
\* starts the call and in the step that ends it.
C6_LoginRejectsInvalid ==
    [][/\ \A t \in BagToSet(timers) :
             (TimerFired(t) /\ t.op = "login" /\ (t.email = <<>> \/ Len(t.password) < 6))
                => (event'.ret = FALSE /\ user' = user /\ isLoggedIn' = isLoggedIn)
       /\ (ops' = ops + 1 /\ BagCardinality(timers') > BagCardinality(timers))
             => (user' = user /\ isLoggedIn' = isLoggedIn)]_vars

\* a login with a 5-character password has failed while a user was logged in
C6_Witness ==
    /\ event.op = "login"
    /\ event.email # <<>>
    /\ Len(event.password) = 5
    /\ event.ret = FALSE
    /\ user # Null
    /\ isLoggedIn

\* name is the part of email before its first '@' (all of it when it has none)
IsLocalPart(name, email) ==
    /\ Len(name) <= Len(email)
    /\ \A i \in 1..Len(name) : name[i] = email[i] /\ name[i] # "@"
    /\ Len(name) < Len(email) => email[Len(name) + 1] = "@"

\* C7: a login with a non-empty email and a password of at least 6 characters
\* returns true, and then isLoggedIn is true and user is the synthesized record:
\* the email, its part before the first '@' as name, id '1', email verified,
\* phone not verified.
C7_LoginAcceptsValid ==
    [][\A t \in BagToSet(timers) :
          (TimerFired(t) /\ t.op = "login" /\ t.email # <<>> /\ Len(t.password) >= 6)
             => /\ event'.ret = TRUE
                /\ isLoggedIn' = TRUE
                /\ user' # Null
                /\ user'.email = t.email
                /\ IsLocalPart(user'.name, t.email)
                /\ user'.id = <<"1">>
                /\ user'.isEmailVerified = TRUE
                /\ user'.isPhoneVerified = FALSE]_vars

\* a login has succeeded with an email that has an '@' after its first character
C7_Witness ==
    /\ event.op = "login"
    /\ event.ret = TRUE
    /\ isLoggedIn
    /\ user # Null
    /\ user.email = event.email
    /\ user.name # <<>>
    /\ user.name # user.email

\* C8: signup always returns true, and any two signup calls of a session
\* produce different user ids, however the calls are ordered or overlap.
C8_SignupIdsUnique ==
    /\ event.op = "signup" => event.ret = TRUE
    /\ \A i, j \in DOMAIN signupIds : i # j => signupIds[i] # signupIds[j]

\* C9: after any logout user is null, isLoggedIn is false and the verification
\* sub-record is {verificationMethod: null, all four flags false}; a logout that
\* follows a logout leaves the state as the first one left it.
C9_LogoutIdempotent ==
    [][Invoked("logout")
          => /\ user' = Null
             /\ isLoggedIn' = FALSE
             /\ verification' = [emailVerificationSent |-> FALSE,
                                 phoneVerificationSent |-> FALSE,
                                 emailVerified |-> FALSE,
                                 phoneVerified |-> FALSE,
                                 verificationMethod |-> NoMethod]
             /\ event.op = "logout" => UNCHANGED <<user, isLoggedIn, verification>>]_vars

\* logout has run twice in a row, the first time with a user logged in
C9_Witness ==
    /\ event.op = "logout"
    /\ event.after.op = "logout"
    /\ event.after.hadUser

\* C10: updateProfile(partial) while user is null changes nothing of the
\* Identity Store state; while a user exists it shallow-merges the supplied
\* fields into user and changes neither isLoggedIn nor verification.
C10_UpdateProfileFrame ==
    [][\A userData \in ProfileInputs :
          (Invoked("updateProfile") /\ event'.userData = userData)
             => IF user = Null
                THEN UNCHANGED <<user, isLoggedIn, verification>>
                ELSE /\ DOMAIN user' = DOMAIN user \cup DOMAIN userData
                     /\ \A f \in DOMAIN userData : user'[f] = userData[f]
                     /\ \A f \in DOMAIN user \ DOMAIN userData : user'[f] = user[f]
                     /\ UNCHANGED <<isLoggedIn, verification>>]_vars

\* updateProfile has merged new fields into an existing user while the
\* verification sub-record was not the initial one
C10_Witness ==
    /\ event.op = "updateProfile"
    /\ event.hadUser
    /\ user # Null
    /\ "address" \in DOMAIN user
    /\ user.id = <<"1">>
    /\ verification # InitialVerification

---------------------------------------------------------------------------
(* Claims about the persistence and the verification flags of the Identity Store *)

\* the page was loaded again in this step
AuthReloaded ==
    /\ event'.op = "reload"
    /\ ops' = ops
    /\ now' = now
    /\ timers' = EmptyBag
    /\ signupIds' = <<>>

UserFields ==
    {"id", "email", "name", "phone", "address", "joinDate", "isEmailVerified",
     "isPhoneVerified"}

\* u[f] as JavaScript reads it: undefined when u has no property f
Read(u, f) == IF f \in DOMAIN u THEN u[f] ELSE UndefinedString

\* C11: a reload of the page leaves user and isLoggedIn as they were before it
\* (user is null exactly when it was, and every field of a user reads as it
\* did), and leaves verification the initial sub-record, method null and the
\* four flags false, whatever it was before.
C11_AuthRoundTrip ==
    [][AuthReloaded
          => /\ (user' = Null) <=> (user = Null)
             /\ user # Null => \A f \in UserFields : Read(user', f) = Read(user, f)
             /\ isLoggedIn' = isLoggedIn
             /\ verification' = [emailVerificationSent |-> FALSE,
                                 phoneVerificationSent |-> FALSE,
                                 emailVerified |-> FALSE,
                                 phoneVerified |-> FALSE,
                                 verificationMethod |-> NoMethod]]_vars

\* the page was loaded again with a signed-up user, who had given no phone,
\* logged in and with verification flags set
C11_Witness ==
    /\ event.op = "reload"
    /\ event.hadUser
    /\ event.hadVerification
    /\ user # Null
    /\ user.id # <<"1">>
    /\ "phone" \notin DOMAIN user
    /\ isLoggedIn
    /\ verification = InitialVerification

SetterFields ==
    [setVerificationMethod |-> "verificationMethod",
     setEmailVerificationSent |-> "emailVerificationSent",
     setPhoneVerificationSent |-> "phoneVerificationSent",
     setEmailVerified |-> "emailVerified",
     setPhoneVerified |-> "phoneVerified"]

\* C18: while the UI may invoke an operation, each of the five verification
\* setters and resetVerification can run, whatever the state; a setter sets
\* its own field of verification to its argument and leaves the four other
\* fields, user and isLoggedIn as they were; resetVerification makes
\* verification the initial sub-record and leaves user and isLoggedIn as they
\* were.
C18_SettersIsolated ==
    /\ [](CanInvoke
            => /\ \A method \in Methods : ENABLED setVerificationMethod(method)
               /\ \A b \in BOOLEAN :
                     /\ ENABLED setEmailVerificationSent(b)
                     /\ ENABLED setPhoneVerificationSent(b)
                     /\ ENABLED setEmailVerified(b)
                     /\ ENABLED setPhoneVerified(b)
               /\ ENABLED resetVerification)
    /\ [][/\ \A name \in DOMAIN SetterFields :
               Invoked(name)
                   => (/\ verification'[SetterFields[name]] = event'.value
                       /\ \A g \in DOMAIN verification \ {SetterFields[name]} :
                             verification'[g] = verification[g]
                       /\ DOMAIN verification' = DOMAIN verification
                       /\ UNCHANGED <<user, isLoggedIn>>)
          /\ Invoked("resetVerification")
                 => (/\ verification' = [emailVerificationSent |-> FALSE,
                                         phoneVerificationSent |-> FALSE,
                                         emailVerified |-> FALSE,
                                         phoneVerified |-> FALSE,
                                         verificationMethod |-> NoMethod]
                     /\ UNCHANGED <<user, isLoggedIn>>)]_vars

\* the phone was marked verified although no phone verification had been sent,
\* with the email method chosen and a user logged in
C18_Witness ==
    /\ event.op = "setPhoneVerified"
    /\ event.value = TRUE
    /\ verification.phoneVerified
    /\ ~verification.phoneVerificationSent
    /\ verification.verificationMethod = "email"
    /\ user # Null

\* C19: in every reachable state of the Identity Store, isLoggedIn is true
\* exactly when user is not null.
C19_LoggedInIffUser ==
    isLoggedIn <=> (user # Null)

\* logout has cleared a logged-in user while a login or signup was suspended
C19_Witness ==
    /\ event.op = "logout"
    /\ event.hadUser
    /\ user = Null
    /\ ~isLoggedIn
    /\ timers # EmptyBag

---------------------------------------------------------------------------
(* Further claims about the Admin Store *)

\* C12: adminLogout sets isAdminLoggedIn to false and adminUser to null, leaves
\* users, orders, products and dashboardStats as they were, and starts no
\* request.
C12_AdminLogoutFrame ==
    [][(Invoked("adminLogout") /\ loggedOutAt' = ops')
          => /\ isAdminLoggedIn' = FALSE
             /\ adminUser' = Null
             /\ UNCHANGED <<users, orders, products, dashboardStats>>
             /\ inflight' = inflight]_vars

\* an administrator has logged out and the cached collections and the
\* statistics are still those the service returned
C12_Witness ==
    /\ event.op = "adminLogout"
    /\ event.wasLoggedIn
    /\ ~isAdminLoggedIn
    /\ adminUser = Null
    /\ users = ServerUsers
    /\ orders = ServerOrders
    /\ products = ServerProducts
    /\ dashboardStats = ServerStats

\* C13: searchUsers changes no field of the Admin Store, neither when it is
\* called nor when its request is answered, whatever the answer; it returns the
\* data of a success:true body, and the empty array when the body reports
\* success:false or the request throws.
C13_SearchUsersReadThrough ==
    [][/\ \A t \in BagToSet(inflight) :
             (AdminSettled(t) /\ t.op = "searchUsers")
                => (/\ UNCHANGED adminState
                    /\ event'.ret = IF event'.outcome = "ok" THEN event'.data ELSE <<>>)
       /\ \A t \in BagToSet(inflight') :
             (t.op = "searchUsers" /\ CopiesIn(t, inflight') > CopiesIn(t, inflight))
                => UNCHANGED adminState]_vars

\* a search has returned one user while the cache holds two
C13_Witness ==
    /\ event.op = "searchUsers"
    /\ event.outcome = "ok"
    /\ event.ret = <<ServerUsers[1]>>
    /\ users = ServerUsers

\* C14, as the code has it: an acknowledged addProduct appends its record to
\* the collection as it is when the answer arrives, not as it was when the call
\* started, so of two calls in flight together neither loses its record; when
\* products is undefined the call changes nothing.
C14_AppendsToCurrent ==
    [][\A t \in BagToSet(inflight) :
          (AdminSettled(t) /\ t.op = "addProduct" /\ event'.outcome = "ok")
             => IF products = UndefinedList
                THEN products' = products
                ELSE /\ Len(products') = Len(products) + 1
                     /\ \A i \in 1..Len(products) : products'[i] = products[i]
                     /\ products'[Len(products')] = event'.data]_vars

\* two addProduct calls were in flight together and both records are there
C14_Witness ==
    /\ event.op = "addProduct"
    /\ event.outcome = "ok"
    /\ event.snapshot = <<>>
    /\ Len(products) = 2
    /\ products[2] = event.data
    /\ products[1].id # products[2].id

\* C14, as stated: of two addProduct calls in flight together the one
\* acknowledged second read the collection before the first one's append, so
\* it replaces the collection by that snapshot with its own record appended,
\* and the first one's record is lost.
C14_LostUpdate ==
    [][\A t \in BagToSet(inflight) :
          (/\ AdminSettled(t) /\ t.op = "addProduct" /\ event'.outcome = "ok"
           /\ products # UndefinedList
           /\ t.snapshot # UndefinedList
           /\ products # t.snapshot)
             => products' = Append(t.snapshot, event'.data)]_vars

VoidOps ==
    {"updateDashboardStats", "loadInitialData", "updateUserStatus", "addProduct",
     "updateProduct", "deleteProduct", "updateOrderStatus"}

\* C15: whatever the remote outcome, an Admin Store operation completes by
\* returning and never by throwing: adminLogin returns false on a failure (and
\* true after its loadInitialData, however that went), searchUsers returns the
\* empty array on a failure, and the seven void operations return undefined.
C15_NoExceptionEscapes ==
    [][\A t \in BagToSet(inflight) :
          AdminSettled(t)
             => /\ (t.op = "adminLogin" /\ event'.outcome # "ok")
                      => event'.completes = Returned(FALSE)
                /\ t.op = "searchUsers"
                      => (/\ ~event'.completes.threw
                          /\ event'.outcome # "ok" => event'.completes = Returned(<<>>))
                /\ t.op \in VoidOps => event'.completes = Returned(Undefined)
                /\ (t.op = "loadInitialData" /\ t.caller = "adminLogin")
                      => event'.adminLogin.completes = Returned(TRUE)]_vars

\* the updater of updateOrderStatus has thrown a TypeError on undefined orders
\* and the operation has returned all the same
C15_Witness ==
    /\ event.op = "updateOrderStatus"
    /\ event.outcome = "ok"
    /\ orders = UndefinedList
    /\ event.completes = Returned(Undefined)

\* C16: when updateUserStatus(userId, isActive) gets a success response, the
\* users whose id is userId have isActive set to the given value and every
\* other field as before, every other user is as before, and so are the length
\* and the order of users (users is unchanged when no user matches); nothing
\* else of the store changes.
C16_UpdateUserStatusFrame ==
    [][\A t \in BagToSet(inflight) :
          (AdminSettled(t) /\ t.op = "updateUserStatus" /\ event'.outcome = "ok")
             => /\ IF users = UndefinedList
                   THEN users' = users
                   ELSE /\ Len(users') = Len(users)
                        /\ \A i \in 1..Len(users) :
                              IF users[i].id = t.userId
                              THEN /\ DOMAIN users'[i] = DOMAIN users[i] \cup {"isActive"}
                                   /\ users'[i].isActive = t.isActive
                                   /\ \A f \in DOMAIN users[i] \ {"isActive"} :
                                         users'[i][f] = users[i][f]
                              ELSE users'[i] = users[i]
                        /\ (\A i \in 1..Len(users) : users[i].id # t.userId)
                              => users' = users
                /\ UNCHANGED <<isAdminLoggedIn, adminUser, orders, products,
                               dashboardStats>>]_vars

\* the first of two cached users has been deactivated
C16_Witness ==
    /\ event.op = "updateUserStatus"
    /\ event.outcome = "ok"
    /\ event.userId = "u1"
    /\ event.isActive = FALSE
    /\ Len(users) = 2
    /\ users[1] = [id |-> "u1", name |-> "n1", isActive |-> FALSE]
    /\ users[2] = ServerUsers[2]

\* the page was loaded again in this step
AdminReloaded ==
    /\ event'.op = "reload"
    /\ ops' = ops
    /\ inflight' = EmptyBag

\* C17: a reload of the page leaves isAdminLoggedIn, adminUser, users, orders
\* and products as they were before it, and makes dashboardStats the initial
\* record.
C17_AdminRoundTrip ==
    [][AdminReloaded
          => /\ UNCHANGED <<isAdminLoggedIn, adminUser, users, orders, products>>
             /\ dashboardStats' = [totalUsers |-> 0, totalOrders |-> 0, pending |-> 0]]_vars

\* C20: once adminLogout has run, only an adminLogin call invoked after it, on
\* a success response, makes isAdminLoggedIn true or adminUser an
\* administrator again.
C20_LogoutFinal ==
    [][(/\ loggedOutAt > 0
        /\ ~isAdminLoggedIn /\ adminUser = Null
        /\ (isAdminLoggedIn' \/ adminUser' # Null))
          => \E t \in BagToSet(inflight) :
                /\ AdminSettled(t)
                /\ t.op = "adminLogin"
                /\ event'.outcome = "ok"
                /\ t.invokedAt > loggedOutAt]_vars

=============================================================================
